---- MODULE Spec2Model ----
(***************************************************************************)
(* Model of csv_to_xlsx_converter.py: parse_csv_questions turns the rows   *)
(* of a quiz CSV into question entries, create_xlsx_output lays them out   *)
(* as the rows of the Questions sheet and of the Debug sheet, and main     *)
(* drives the two.  Strings are TLA+ strings; a character is a string of   *)
(* length one.  The characters are those of the ASCII tables below plus    *)
(* the tab.                                                                *)
(***************************************************************************)
EXTENDS Integers, Sequences, FiniteSets, TLC

(***************************************************************************)
(* Characters and the str methods the converter calls.                     *)
(***************************************************************************)
Ch(s, i) == SubSeq(s, i, i)

\* the printable ASCII characters of code points 32..95, in code point order
AsciiLow == " !\"#$%&'()*+,-./0123456789:;<=>?@ABCDEFGHIJKLMNOPQRSTUVWXYZ[\\]^_"

\* the printable ASCII characters of code points 97..126, in code point order
AsciiHigh == "abcdefghijklmnopqrstuvwxyz{|}~"

UpperCase == "ABCDEFGHIJKLMNOPQRSTUVWXYZ"

LowerCase == "abcdefghijklmnopqrstuvwxyz"

Digits == "0123456789"

Whitespace == {" ", "\t"}

Chars(s) == {Ch(s, i) : i \in 1..Len(s)}

\* the position (from 1) of the character c in the table t; 0 when absent
Pos(c, t) == IF c \in Chars(t) THEN CHOOSE i \in 1..Len(t) : Ch(t, i) = c ELSE 0

\* ord(c)
ord(c) == IF c = "\t" THEN 9
          ELSE IF Pos(c, AsciiLow) > 0 THEN Pos(c, AsciiLow) + 31
          ELSE Pos(c, AsciiHigh) + 96

\* chr(n); outside the tables the character is named by its code point
chr(n) == IF n \in 32..95 THEN Ch(AsciiLow, n - 31)
          ELSE IF n \in 97..126 THEN Ch(AsciiHigh, n - 96)
          ELSE "chr(" \o ToString(n) \o ")"

upperCh(c) == IF Pos(c, LowerCase) > 0 THEN Ch(UpperCase, Pos(c, LowerCase)) ELSE c

lowerCh(c) == IF Pos(c, UpperCase) > 0 THEN Ch(LowerCase, Pos(c, UpperCase)) ELSE c

\* s.upper()
RECURSIVE upper(_)
upper(s) == IF s = "" THEN "" ELSE upperCh(Ch(s, 1)) \o upper(SubSeq(s, 2, Len(s)))

\* s.lower()
RECURSIVE lower(_)
lower(s) == IF s = "" THEN "" ELSE lowerCh(Ch(s, 1)) \o lower(SubSeq(s, 2, Len(s)))

\* s.strip()
strip(s) ==
    LET kept == {i \in 1..Len(s) : Ch(s, i) \notin Whitespace}
        first == CHOOSE i \in kept : \A j \in kept : i <= j
        last == CHOOSE i \in kept : \A j \in kept : j <= i
    IN  IF kept = {} THEN "" ELSE SubSeq(s, first, last)

\* s.isdigit()
isdigit(s) == s # "" /\ \A i \in 1..Len(s) : Pos(Ch(s, i), Digits) > 0

\* s.isalpha()
isalpha(s) == s # "" /\ \A i \in 1..Len(s) :
                  Pos(Ch(s, i), UpperCase) > 0 \/ Pos(Ch(s, i), LowerCase) > 0

\* int(s) of an all-digit s
RECURSIVE int(_)
int(s) == IF s = "" THEN 0
          ELSE 10 * int(SubSeq(s, 1, Len(s) - 1)) + (Pos(Ch(s, Len(s)), Digits) - 1)

\* c in s, for a character c
In(c, s) == c \in Chars(s)

\* s.split(c), for a character c
RECURSIVE split(_, _)
split(s, c) ==
    IF ~In(c, s) THEN <<s>>
    ELSE LET i == CHOOSE k \in 1..Len(s) : Ch(s, k) = c /\ \A j \in 1..(k - 1) : Ch(s, j) # c
         IN  <<SubSeq(s, 1, i - 1)>> \o split(SubSeq(s, i + 1, Len(s)), c)

\* s.replace(old, new)
RECURSIVE replace(_, _, _)
replace(s, old, new) ==
    IF Len(s) < Len(old) THEN s
    ELSE IF SubSeq(s, 1, Len(old)) = old
         THEN new \o replace(SubSeq(s, Len(old) + 1, Len(s)), old, new)
         ELSE Ch(s, 1) \o replace(SubSeq(s, 2, Len(s)), old, new)

\* re.findall(r'\d+', s): the maximal runs of digits of s, left to right
RECURSIVE findall_digits(_)
findall_digits(s) ==
    IF s = "" THEN <<>>
    ELSE IF Pos(Ch(s, 1), Digits) = 0 THEN findall_digits(SubSeq(s, 2, Len(s)))
    ELSE LET ends == {k \in 1..Len(s) : \A j \in 1..k : Pos(Ch(s, j), Digits) > 0}
             n == CHOOSE k \in ends : \A j \in ends : j <= k
         IN  <<SubSeq(s, 1, n)>> \o findall_digits(SubSeq(s, n + 1, Len(s)))

\* a < b for two str: by code point, a proper prefix first
RECURSIVE StrLess(_, _)
StrLess(a, b) ==
    IF b = "" THEN FALSE
    ELSE IF a = "" THEN TRUE
    ELSE IF Ch(a, 1) = Ch(b, 1) THEN StrLess(SubSeq(a, 2, Len(a)), SubSeq(b, 2, Len(b)))
    ELSE ord(Ch(a, 1)) < ord(Ch(b, 1))

(***************************************************************************)
(* The input.  A row of csv.DictReader maps column names to str; a cell    *)
(* is <<>> when the row has no value under that column and <<s>> when it   *)
(* holds the str s.  The 'Choice N' columns are the sequence Choice.       *)
(***************************************************************************)
Cell(s) == <<s>>

NoCell == <<>>

Row(question, explanation, source, correct_answer, choice) ==
    [Question |-> question, Explanation |-> explanation, Source |-> source,
     CorrectAnswer |-> correct_answer, Choice |-> choice]

\* row.get(key, default) of a cell
get(cell, default) == IF cell = NoCell THEN default ELSE cell[1]

VARIABLES
    records,      \* the rows csv.DictReader yields for the input file
    stem,         \* input_csv.stem, the input file's name without extension
    pc,           \* where main is
    row,          \* the number of the next row the reader yields
    questions,    \* parse_csv_questions: the list of question entries
    section_id,   \* main: the default section id
    rows,         \* create_xlsx_output: the rows of the Questions sheet
    qi,           \* create_xlsx_output: the question a loop has reached
    debug_rows,   \* create_xlsx_output: the rows of the Debug sheet
    written,      \* the sheets written to the output file, <<>> when none
    exit_code     \* the process's exit status, -1 while it runs

vars == <<records, stem, pc, row, questions, section_id, rows, qi, debug_rows,
          written, exit_code>>

(***************************************************************************)
(* parse_csv_questions                                                     *)
(***************************************************************************)
\* SkipRow without the test for a Question of whitespace only
SkipRow_NoStrip(r) == r.Question = NoCell \/ r.Question[1] = ""

\* the rows the loop skips: no Question, or a blank one
SkipRow(r) == r.Question = NoCell \/ r.Question[1] = "" \/ strip(r.Question[1]) = ""

\* ChoicesFrom passing over a gap instead of stopping at it
RECURSIVE ChoicesFrom_SkipGap(_, _)
ChoicesFrom_SkipGap(r, i) ==
    IF i > Len(r.Choice) THEN <<>>
    ELSE IF r.Choice[i] # NoCell /\ strip(r.Choice[i][1]) # ""
    THEN <<strip(r.Choice[i][1])>> \o ChoicesFrom_SkipGap(r, i + 1)
    ELSE ChoicesFrom_SkipGap(r, i + 1)

\* the choices: 'Choice 1', 'Choice 2', ... up to the first missing or blank one
RECURSIVE ChoicesFrom(_, _)
ChoicesFrom(r, i) ==
    IF i <= Len(r.Choice) /\ r.Choice[i] # NoCell /\ r.Choice[i][1] # ""
       /\ strip(r.Choice[i][1]) # ""
    THEN <<strip(r.Choice[i][1])>> \o ChoicesFrom(r, i + 1)
    ELSE <<>>

Choices(r) == ChoicesFrom(r, 1)

Elems(seq) == {seq[i] : i \in 1..Len(seq)}

\* question_type keeping TF when the correct answer holds a comma
question_type_KeepTF(cs, answer) ==
    IF Len(cs) = 2 /\ "True" \in Elems(cs) /\ "False" \in Elems(cs) THEN "TF"
    ELSE IF In(",", answer) THEN "MA" ELSE "MC"

\* the question type
question_type(cs, answer) ==
    LET tf == IF Len(cs) = 2 /\ "True" \in Elems(cs) /\ "False" \in Elems(cs)
              THEN "TF" ELSE "MC"
    IN  IF In(",", answer) THEN "MA" ELSE tf

\* TokenIndices without trimming the tokens
RECURSIVE TokenIndices_NoStrip(_)
TokenIndices_NoStrip(tokens) ==
    IF tokens = <<>> THEN <<>>
    ELSE LET x == upper(Head(tokens))
         IN  (IF isdigit(x) THEN <<int(x) - 1>>
              ELSE IF Len(x) = 1 /\ isalpha(x) THEN <<ord(x) - ord("A")>>
              ELSE <<>>) \o TokenIndices_NoStrip(Tail(tokens))

\* the indices of a comma separated correct answer, token by token
RECURSIVE TokenIndices(_)
TokenIndices(tokens) ==
    IF tokens = <<>> THEN <<>>
    ELSE LET x == upper(strip(Head(tokens)))
         IN  (IF isdigit(x) THEN <<int(x) - 1>>
              ELSE IF Len(x) = 1 /\ isalpha(x) THEN <<ord(x) - ord("A")>>
              ELSE <<>>) \o TokenIndices(Tail(tokens))

\* the index of the first choice that is the correct answer's text
TextMatch(cs, answer) ==
    LET hits == {i \in 1..Len(cs) : lower(cs[i]) = lower(answer)}
    IN  IF hits = {} THEN <<>>
        ELSE <<(CHOOSE i \in hits : \A j \in hits : i <= j) - 1>>

\* correct_indices trying the text of the choices before the letter rule
correct_indices_TextFirst(cs, answer) ==
    IF In(",", answer) THEN TokenIndices(split(answer, ","))
    ELSE IF lower(answer) \in {"true", "false"}
         THEN <<IF lower(answer) = "true" THEN 0 ELSE 1>>
    ELSE IF isdigit(answer) THEN <<int(answer) - 1>>
    ELSE IF TextMatch(cs, answer) # <<>> THEN TextMatch(cs, answer)
    ELSE IF Len(strip(answer)) = 1 /\ isalpha(upper(strip(answer)))
         THEN <<ord(upper(strip(answer))) - ord("A")>>
    ELSE <<>>

\* the zero-based correct indices, a list
correct_indices(cs, answer) ==
    IF In(",", answer) THEN TokenIndices(split(answer, ","))
    ELSE IF lower(answer) \in {"true", "false"}
         THEN <<IF lower(answer) = "true" THEN 0 ELSE 1>>
    ELSE IF isdigit(answer) THEN <<int(answer) - 1>>
    ELSE IF Len(strip(answer)) = 1 /\ isalpha(upper(strip(answer)))
         THEN <<ord(upper(strip(answer))) - ord("A")>>
    ELSE TextMatch(cs, answer)

\* the question entry of a row that is not skipped
question_entry(r) ==
    LET cs == Choices(r)
        answer == strip(get(r.CorrectAnswer, ""))
    IN  [type |-> question_type(cs, answer),
         question |-> strip(r.Question[1]),
         explanation |-> strip(get(r.Explanation, "")),
         choices |-> cs,
         correct_indices |-> correct_indices(cs, answer),
         source |-> strip(get(r.Source, ""))]

\* one turn of the loop over the reader's rows
ParseRow ==
    /\ pc = "parse"
    /\ row <= Len(records)
    /\ questions' = IF SkipRow(records[row]) THEN questions
                    ELSE Append(questions, question_entry(records[row]))
    /\ row' = row + 1
    /\ UNCHANGED <<records, stem, pc, section_id, rows, qi, debug_rows, written, exit_code>>

(***************************************************************************)
(* main, from the return of parse_csv_questions to the call of             *)
(* create_xlsx_output                                                      *)
(***************************************************************************)
\* the section id made from the input file's name
FilenameSectionId(name) ==
    LET up == upper(replace(replace(name, " ", "-"), "_", "-"))
    IN  replace(replace(replace(up, ".XLSX", ""), ".CSV", ""), "-FORMATTED", "")

\* the section id: the first question's source, else made from the file name
SectionId(qs, name) ==
    IF qs # <<>> /\ qs[1].source # "" THEN strip(qs[1].source)
    ELSE FilenameSectionId(name)

HeaderRow == <<"Type", "Question", "Explanation", "Answer", "Correct", "Meta Key", "Meta Value">>

\* MainAfterParse without the exit on an empty list
MainAfterParse_NoCheck ==
    /\ pc = "parse"
    /\ row > Len(records)
    /\ pc' = "rows"
    /\ section_id' = SectionId(questions, stem)
    /\ rows' = <<HeaderRow>>
    /\ qi' = 1
    /\ UNCHANGED <<records, stem, row, questions, debug_rows, written, exit_code>>

\* the reader is exhausted: parse_csv_questions returns, main exits with 1 on
\* an empty list and otherwise calls create_xlsx_output, which begins the
\* Questions sheet with its header row
MainAfterParse ==
    /\ pc = "parse"
    /\ row > Len(records)
    /\ IF questions = <<>>
       THEN /\ pc' = "exit"
            /\ exit_code' = 1
            /\ UNCHANGED <<section_id, rows, qi>>
       ELSE /\ pc' = "rows"
            /\ section_id' = SectionId(questions, stem)
            /\ rows' = <<HeaderRow>>
            /\ qi' = 1
            /\ UNCHANGED exit_code
    /\ UNCHANGED <<records, stem, row, questions, debug_rows, written>>

(***************************************************************************)
(* create_xlsx_output: the Questions sheet                                 *)
(***************************************************************************)
BlankRow == <<"", "", "", "", "", "", "">>

\* Mark reading the correct indices as one-based
Mark_OneBased(i, q) == IF (i + 1) \in Elems(q.correct_indices) THEN "1" ELSE ""

\* the Correct cell of the choice of index i
Mark(i, q) == IF i \in Elems(q.correct_indices) THEN "1" ELSE ""

\* the source of a question, else the default section id
QuestionSection(q, default) == IF q.source # "" THEN q.source ELSE default

FirstRow(q, default) ==
    <<q.type, q.question, q.explanation, q.choices[1], Mark(0, q), "ID",
      QuestionSection(q, default)>>

AnswerRow(q, i) == <<"", "", "", q.choices[i + 1], Mark(i, q), "", "">>

\* QuestionRowsOf with the blank row inside the test for choices
QuestionRowsOf_BlankInside(q, default) ==
    IF q.choices # <<>>
    THEN <<FirstRow(q, default)>> \o [k \in 1..(Len(q.choices) - 1) |-> AnswerRow(q, k)]
            \o <<BlankRow>>
    ELSE <<>>

\* the rows of one question: a row per choice, then a blank row
QuestionRowsOf(q, default) ==
    (IF q.choices # <<>>
     THEN <<FirstRow(q, default)>> \o [k \in 1..(Len(q.choices) - 1) |-> AnswerRow(q, k)]
     ELSE <<>>) \o <<BlankRow>>

\* one turn of the loop over the questions
QuestionRows ==
    /\ pc = "rows"
    /\ qi <= Len(questions)
    /\ rows' = rows \o QuestionRowsOf(questions[qi], section_id)
    /\ qi' = qi + 1
    /\ UNCHANGED <<records, stem, pc, row, questions, section_id, debug_rows, written, exit_code>>

(***************************************************************************)
(* create_xlsx_output: the Debug sheet                                     *)
(***************************************************************************)
\* section_counts, a dict: its items <<section, count>> in insertion order
RECURSIVE SectionCounts(_, _)
SectionCounts(qs, default) ==
    IF qs = <<>> THEN <<>>
    ELSE LET before == SectionCounts(SubSeq(qs, 1, Len(qs) - 1), default)
             section == QuestionSection(qs[Len(qs)], default)
         IN  IF \E k \in 1..Len(before) : before[k][1] = section
             THEN [k \in 1..Len(before) |->
                      IF before[k][1] = section THEN <<section, before[k][2] + 1>>
                      ELSE before[k]]
             ELSE Append(before, <<section, 1>>)

RECURSIVE Ints(_)
Ints(parts) == IF parts = <<>> THEN <<>> ELSE <<int(Head(parts))>> \o Ints(Tail(parts))

\* the sort key of an item of section_counts: a tuple of int when the section
\* has two digit runs or more, else the tuple of the section itself
natural_sort_key(item) ==
    LET parts == findall_digits(item[1])
    IN  IF Len(parts) >= 2 THEN [ints |-> TRUE, t |-> Ints(parts)]
        ELSE [ints |-> FALSE, t |-> <<item[1]>>]

\* a < b for two tuples of int
RECURSIVE IntTupleLess(_, _)
IntTupleLess(a, b) ==
    IF b = <<>> THEN FALSE
    ELSE IF a = <<>> THEN TRUE
    ELSE IF Head(a) = Head(b) THEN IntTupleLess(Tail(a), Tail(b))
    ELSE Head(a) < Head(b)

\* a < b for two keys of one kind
KeyLess(a, b) == IF a.ints THEN IntTupleLess(a.t, b.t) ELSE StrLess(a.t[1], b.t[1])

\* comparing a tuple of int with a tuple of str raises TypeError; a sort of
\* two items or more compares a pair of either kind whenever both are present
SortRaises(items) ==
    \E i, j \in 1..Len(items) : natural_sort_key(items[i]).ints /\ ~natural_sort_key(items[j]).ints

\* insert x after the items of a sorted list whose key is not above x's
RECURSIVE Insert(_, _)
Insert(sorted, x) ==
    IF sorted = <<>> THEN <<x>>
    ELSE IF KeyLess(natural_sort_key(x), natural_sort_key(sorted[Len(sorted)]))
         THEN Append(Insert(SubSeq(sorted, 1, Len(sorted) - 1), x), sorted[Len(sorted)])
         ELSE Append(sorted, x)

\* sorted(items, key=natural_sort_key), a stable sort, when it does not raise
RECURSIVE Sorted(_)
Sorted(items) ==
    IF items = <<>> THEN <<>>
    ELSE Insert(Sorted(SubSeq(items, 1, Len(items) - 1)), items[Len(items)])

SummaryRows(qs, counts) ==
    << <<"Metric", "Value">>,
       <<"Total Questions Parsed", Len(qs)>>,
       <<"Total Tracks/Sections", Len(counts)>>,
       <<"Keep Answer Prefixes", "No">>,
       <<"Parsing Errors", 0>>,
       <<"">>,
       <<"Track Details">> >>

TrackRow(item) == <<"  " \o item[1], ToString(item[2]) \o " questions">>

TrackRows(counts) == [k \in 1..Len(counts) |-> TrackRow(Sorted(counts)[k])]

AuditHeaderRows ==
    << <<"">>,
       <<"Parsing Errors:">>,
       <<"  None detected">>,
       <<"">>,
       <<"Track", "Q#", "Question Preview", "Correct Answer", "Page Ref", "Has Explanation">> >>

\* the Questions sheet is complete: count the sections, write the summary and
\* the track details in the order of the natural sort key, or raise TypeError
DebugSummary ==
    /\ pc = "rows"
    /\ qi > Len(questions)
    /\ LET counts == SectionCounts(questions, section_id)
       IN  IF SortRaises(counts)
           THEN /\ pc' = "raised"
                /\ exit_code' = 1
                /\ UNCHANGED <<debug_rows, qi>>
           ELSE /\ pc' = "audit"
                /\ debug_rows' = SummaryRows(questions, counts) \o TrackRows(counts)
                                    \o AuditHeaderRows
                /\ qi' = 1
                /\ UNCHANGED exit_code
    /\ UNCHANGED <<records, stem, row, questions, section_id, rows, written>>

\* the letters of the correct indices, sorted and joined with ', '
RECURSIVE SortedInts(_)
SortedInts(S) ==
    IF S = {} THEN <<>>
    ELSE LET m == CHOOSE x \in S : \A y \in S : x <= y
         IN  <<m>> \o SortedInts(S \ {m})

Count(x, seq) == Cardinality({k \in 1..Len(seq) : seq[k] = x})

RECURSIVE Repeat(_, _)
Repeat(s, n) == IF n = 0 THEN <<>> ELSE <<s>> \o Repeat(s, n - 1)

RECURSIVE Flatten(_)
Flatten(seqs) == IF seqs = <<>> THEN <<>> ELSE Head(seqs) \o Flatten(Tail(seqs))

\* sorted([chr(65 + idx) for idx in indices])
SortedLetters(indices) ==
    LET order == SortedInts(Elems(indices))
    IN  Flatten([k \in 1..Len(order) |-> Repeat(chr(65 + order[k]), Count(order[k], indices))])

RECURSIVE Join(_, _)
Join(sep, strs) ==
    IF strs = <<>> THEN ""
    ELSE IF Len(strs) = 1 THEN strs[1]
    ELSE strs[1] \o sep \o Join(sep, Tail(strs))

CorrectLetter(q) ==
    IF q.correct_indices # <<>> THEN Join(", ", SortedLetters(q.correct_indices)) ELSE ""

\* question_preview cutting at 50 characters before the dots
question_preview_Cut50(text) == IF Len(text) > 50 THEN SubSeq(text, 1, 50) \o "..." ELSE text

\* the preview of a question's text
question_preview(text) == IF Len(text) > 50 THEN SubSeq(text, 1, 47) \o "..." ELSE text

has_explanation(q) == IF strip(q.explanation) # "" THEN "Yes" ELSE "No"

AuditRowOf(i, q, default) ==
    <<QuestionSection(q, default), ToString(i), question_preview(q.question),
      CorrectLetter(q), "", has_explanation(q)>>

\* one turn of the loop that writes the question summary table
AuditRow ==
    /\ pc = "audit"
    /\ qi <= Len(questions)
    /\ debug_rows' = Append(debug_rows, AuditRowOf(qi, questions[qi], section_id))
    /\ qi' = qi + 1
    /\ UNCHANGED <<records, stem, pc, row, questions, section_id, rows, written, exit_code>>

\* both sheets go to the output file; main prints the count and ends
WriteXlsx ==
    /\ pc = "audit"
    /\ qi > Len(questions)
    /\ written' = [Questions |-> rows, Debug |-> debug_rows]
    /\ pc' = "done"
    /\ exit_code' = 0
    /\ UNCHANGED <<records, stem, row, questions, section_id, rows, qi, debug_rows>>

Next == ParseRow \/ MainAfterParse \/ QuestionRows \/ DebugSummary \/ AuditRow \/ WriteXlsx

(***************************************************************************)
(* The inputs and the specifications.                                      *)
(***************************************************************************)
MaxRows == 3

MaxAnswerLen == 3

MaxTracks == 3

MaxQuestionLen == 60

SeqsUpTo(S, n) == UNION {[1..k -> S] : k \in 0..n}

\* the strings of at most n characters of the alphabet A
RECURSIVE StringsUpTo(_, _)
StringsUpTo(A, n) ==
    IF n = 0 THEN {""}
    ELSE LET shorter == StringsUpTo(A, n - 1)
         IN  shorter \cup {s \o c : s \in shorter, c \in A}

Start(recs, names) ==
    /\ records \in recs
    /\ stem \in names
    /\ pc = "parse"
    /\ row = 1
    /\ questions = <<>>
    /\ section_id = ""
    /\ rows = <<>>
    /\ qi = 0
    /\ debug_rows = <<>>
    /\ written = <<>>
    /\ exit_code = -1

Stems == {"quiz 1_2-formatted", "unit"}

\* files of at most MaxRows rows, with and without a question and choices
QuestionCells == {NoCell, Cell(""), Cell("  "), Cell(" Q1? "), Cell("Q2")}

FewChoiceColumns == {<<>>, <<Cell("a")>>, <<Cell("True"), Cell("False")>>}

FileRows == {Row(q, Cell("why"), Cell("1.2"), Cell("1"), c) :
                q \in QuestionCells, c \in FewChoiceColumns}

Init == Start(SeqsUpTo(FileRows, MaxRows), {"unit"})

Spec == Init /\ [][Next]_vars

\* files of one row: every correct answer of at most MaxAnswerLen characters
\* of AnswerAlphabet and the answers of AnswerSamples, or none, against the
\* choice columns of ChoiceColumns
AnswerAlphabet == {"1", "3", "b", "C", ",", " "}

AnswerSamples == {"true", "True", "FALSE", " false ", "tru", "paris", "Paris", " PARIS",
                  "London", "0", "12", "1, 3", "A, c", "1,x,3", "true,2", "bC", "?"}

AnswerCells == {NoCell} \cup {Cell(a) : a \in StringsUpTo(AnswerAlphabet, MaxAnswerLen) \cup AnswerSamples}

ChoiceColumns ==
    { <<>>,
      <<Cell("True"), Cell("False")>>,
      <<Cell("False"), Cell("True")>>,
      <<Cell(" True"), Cell("False\t")>>,
      <<Cell("true"), Cell("false")>>,
      <<Cell("True"), Cell("True")>>,
      <<Cell("True"), Cell("False"), Cell("Maybe")>>,
      <<Cell("True"), Cell("False"), Cell(" ")>>,
      <<Cell("London"), Cell(" Paris "), Cell("Rome"), Cell("paris")>>,
      <<Cell("A"), Cell("B"), Cell(""), Cell("D")>>,
      <<Cell("A"), Cell("B"), Cell(" \t"), Cell("D")>>,
      <<Cell("A"), Cell("B"), NoCell, Cell("D")>>,
      <<Cell(""), Cell("A")>>,
      <<Cell("3"), Cell("1"), Cell("C"), Cell("b")>>,
      <<Cell("false"), Cell("true"), Cell("1")>> }

AnswerRows == {Row(Cell("Q"), Cell("why"), Cell("1.2"), a, c) :
                  a \in AnswerCells, c \in ChoiceColumns}

InitAnswer == Start({<<r>> : r \in AnswerRows}, {"unit"})

SpecAnswer == InitAnswer /\ [][Next]_vars

\* files of at most MaxTracks questions that differ in their source
Sources == {"", "1.10", "1.2", "1.9", "Intro", "B2", "Unit 1 ch. 2"}

TrackRowsIn == {Row(Cell("Q"), Cell(""), Cell(src), Cell("1"), <<Cell("a")>>) : src \in Sources}

InitTracks == Start(SeqsUpTo(TrackRowsIn, MaxTracks), Stems)

SpecTracks == InitTracks /\ [][Next]_vars

\* files of one question of 0 .. MaxQuestionLen characters
LongText == "Which river runs through the capital of France, and in which sea does it end?"

PreviewRows == {Row(Cell(SubSeq(LongText, 1, n)), Cell(""), Cell(""), Cell("b"),
                    <<Cell("Seine"), Cell("Loire")>>) : n \in 0..MaxQuestionLen}

InitPreview == Start({<<r>> : r \in PreviewRows}, Stems)

SpecPreview == InitPreview /\ [][Next]_vars

\* files of at most MaxLayoutRows questions, with and without a source, of
\* no, two, three and four choices and one or two correct answers
MaxLayoutRows == 2

LayoutSources == {"", "7.1"}

LayoutChoiceColumns ==
    { <<>>,
      <<Cell("True"), Cell("False")>>,
      <<Cell("London"), Cell(" Paris "), Cell("Rome"), Cell("paris")>>,
      <<Cell("A"), Cell("B"), Cell("C"), Cell(""), Cell("E")>> }

LayoutAnswers == {"1", "b", "1, 3", "paris"}

LayoutRows == {Row(Cell("Q?"), Cell("why"), Cell(src), Cell(a), c) :
                  src \in LayoutSources, a \in LayoutAnswers, c \in LayoutChoiceColumns}

InitLayout == Start(SeqsUpTo(LayoutRows, MaxLayoutRows), Stems)

SpecLayout == InitLayout /\ [][Next]_vars

(***************************************************************************)
(* Properties.  The rows read so far are records[1 .. row - 1]; a row      *)
(* qualifies when its Question is present and not blank, and the k-th      *)
(* question entry is set against the k-th qualifying row.                  *)
(***************************************************************************)
Qualifies(r) == r.Question # NoCell /\ strip(r.Question[1]) # ""

Qualifying(n) == SelectSeq([i \in 1..n |-> i], LAMBDA i : Qualifies(records[i]))

\* the row the k-th question entry is made from
RowOf(k) == records[Qualifying(row - 1)[k]]

\* the trimmed correct answer of a row
AnswerOf(r) == strip(get(r.CorrectAnswer, ""))

EveryQuestion(P(_, _)) ==
    /\ Len(questions) = Len(Qualifying(row - 1))
    /\ \A k \in 1..Len(questions) : P(questions[k], RowOf(k))

SomeQuestion(P(_, _)) ==
    /\ Len(questions) = Len(Qualifying(row - 1))
    /\ \E k \in 1..Len(questions) : P(questions[k], RowOf(k))

\* the indices (from 0) of the choices that equal the answer but for case
Matches(q, a) == {i \in 0..(Len(q.choices) - 1) : lower(q.choices[i + 1]) = lower(a)}

C1_Resolved(q, r) ==
    LET a == AnswerOf(r)
        found == Elems(q.correct_indices)
    IN  ~In(",", a) =>
          IF lower(a) \in {"true", "false"} THEN found = (IF lower(a) = "true" THEN {0} ELSE {1})
          ELSE IF isdigit(a) THEN found = {int(a) - 1}
          ELSE IF Len(a) = 1 /\ isalpha(a) THEN found = {Pos(upper(a), UpperCase) - 1}
          ELSE IF Matches(q, a) = {} THEN found = {}
          ELSE \E m \in Matches(q, a) : found = {m} /\ \A n \in Matches(q, a) : m <= n

\* C1: a correct answer without a comma resolves by the first rule that fits:
\* true/false to {0}/{1}, all digits to {integer - 1}, one letter to its
\* position in the alphabet, else the first choice equal to it but for case,
\* else nothing.
C1_RuleOrder == EveryQuestion(C1_Resolved)

\* the letter C resolves to index 2 although no choice is named C
C1_Witness ==
    SomeQuestion(LAMBDA q, r : AnswerOf(r) = "C" /\ Len(q.choices) = 4
                               /\ Matches(q, "C") = {} /\ q.correct_indices = <<2>>)

C2_Resolved(q, r) ==
    LET a == AnswerOf(r)
        tokens == {upper(strip(t)) : t \in Elems(split(a, ","))}
    IN  In(",", a) =>
          /\ q.type = "MA"
          /\ Elems(q.correct_indices) =
                {int(t) - 1 : t \in {u \in tokens : isdigit(u)}}
                \cup {Pos(t, UpperCase) - 1 : t \in {u \in tokens : Len(u) = 1 /\ isalpha(u)}}

\* C2: a correct answer with a comma is split on commas; each token, trimmed
\* and uppercased, adds integer - 1 when all digits and its alphabet position
\* when one letter, and is skipped otherwise; the type is MA.
C2_MultiAnswer == EveryQuestion(C2_Resolved) /\ pc # "raised"

\* '1, 3' against four choices gives MA and {0, 2}
C2_Witness ==
    SomeQuestion(LAMBDA q, r : AnswerOf(r) = "1, 3" /\ Len(q.choices) = 4
                               /\ q.type = "MA" /\ q.correct_indices = <<0, 2>>)

TrueFalseChoices(q) == Len(q.choices) = 2 /\ Elems(q.choices) = {"True", "False"}

C3_AsClaimed(q, r) ==
    q.type = IF TrueFalseChoices(q) THEN "TF"
             ELSE IF In(",", get(r.CorrectAnswer, "")) THEN "MA" ELSE "MC"

\* C3 as stated: the type is TF when the two choices are True and False,
\* otherwise MA when the correct answer holds a comma, otherwise MC.
C3_TFBeforeMA == EveryQuestion(C3_AsClaimed)

C3_AsCoded(q, r) ==
    q.type = IF In(",", get(r.CorrectAnswer, "")) THEN "MA"
             ELSE IF TrueFalseChoices(q) THEN "TF" ELSE "MC"

\* C3 amended: the type is MA when the correct answer holds a comma,
\* otherwise TF when the two choices are True and False, otherwise MC.
C3_MABeforeTF == EveryQuestion(C3_AsCoded)

\* the choices True and False with a comma in the answer give MA
C3_Witness ==
    SomeQuestion(LAMBDA q, r : TrueFalseChoices(q) /\ In(",", AnswerOf(r)) /\ q.type = "MA")

\* C4: the question entries are the qualifying rows read so far, one each,
\* in the order of the input; their number is the number of rows read less
\* the rows without a question.
C4_OnePerQualifyingRow ==
    /\ EveryQuestion(LAMBDA q, r : q.question = strip(r.Question[1]))
    /\ Len(questions) = (row - 1) - Cardinality({i \in 1..(row - 1) : ~Qualifies(records[i])})

\* three rows read, the middle one blank, the other two kept in their order
C4_Witness ==
    /\ row = 4
    /\ ~Qualifies(records[2])
    /\ Len(questions) = 2
    /\ questions[1].question = "Q2"
    /\ questions[2].question = "Q1?"

\* the choice cells that hold text
Filled(cell) == cell # NoCell /\ strip(cell[1]) # ""

\* the length of the longest run 'Choice 1', 'Choice 2', ... without a gap
GapFree(r) ==
    LET runs == {n \in 0..Len(r.Choice) : \A j \in 1..n : Filled(r.Choice[j])}
    IN  CHOOSE n \in runs : \A m \in runs : m <= n

\* C5: the choices are the trimmed values of 'Choice 1', 'Choice 2', ... up
\* to the first missing or blank one, in order; what follows a gap is ignored.
C5_ChoicesStopAtGap ==
    EveryQuestion(LAMBDA q, r : q.choices = [j \in 1..GapFree(r) |-> strip(r.Choice[j][1])])

\* Choice 1, Choice 2, an empty Choice 3 and a Choice 4 give two choices
C5_Witness ==
    SomeQuestion(LAMBDA q, r : Len(r.Choice) = 4 /\ r.Choice[3] = Cell("")
                               /\ Filled(r.Choice[4]) /\ q.choices = <<"A", "B">>)

\* C6: every correct index is an index into the question's choices.
C6_IndicesInRange ==
    EveryQuestion(LAMBDA q, r : \A i \in Elems(q.correct_indices) : i \in 0..(Len(q.choices) - 1))

\* the questions whose rows are in the Questions sheet
Laid == IF pc = "rows" THEN qi - 1 ELSE IF rows = <<>> THEN 0 ELSE Len(questions)

\* c_1 + ... + c_n, the choices of the first n questions
RECURSIVE ChoicesOfFirst(_)
ChoicesOfFirst(n) == IF n = 0 THEN 0 ELSE ChoicesOfFirst(n - 1) + Len(questions[n].choices)

\* the rows, after the header, of the first n questions
RowsOfFirst(n) == n + ChoicesOfFirst(n)

IsSeparator(r) == Len(r) = 7 /\ \A c \in 1..7 : r[c] = ""

\* C7: after the header row the Questions sheet holds, for each question in
\* turn, a data row per choice and then one blank row of seven cells, so
\* N + c_1 + ... + c_N rows for N questions; a question without choices
\* gives the blank row alone.
C7_RowCount ==
    rows # <<>> =>
      /\ Len(rows) - 1 = RowsOfFirst(Laid)
      /\ \A k \in 1..Laid :
            LET first == 1 + RowsOfFirst(k - 1)
                c == Len(questions[k].choices)
            IN  /\ \A j \in 1..c : ~IsSeparator(rows[first + j])
                /\ IsSeparator(rows[first + c + 1])
      /\ written # <<>> =>
            Len(written.Questions) - 1 = Len(questions) + ChoicesOfFirst(Len(questions))

\* three questions of two, no and one choice are written as 3 + 3 rows
C7_Witness ==
    /\ written # <<>>
    /\ Len(questions) = 3
    /\ Len(questions[1].choices) = 2
    /\ Len(questions[2].choices) = 0
    /\ Len(questions[3].choices) = 1
    /\ Len(written.Questions) = 7

\* the sections of the Track Details rows, in the order of the sheet
TrackTags ==
    LET n == Len(SectionCounts(questions, section_id))
    IN  [k \in 1..n |-> SubSeq(debug_rows[7 + k][1], 3, Len(debug_rows[7 + k][1]))]

Natural(tag) == Len(findall_digits(tag)) >= 2

TracksInOrder ==
    /\ Elems(TrackTags) = {QuestionSection(questions[k], section_id) : k \in 1..Len(questions)}
    /\ \A i, j \in 1..Len(TrackTags) :
          i < j =>
            /\ Natural(TrackTags[i]) /\ Natural(TrackTags[j]) =>
                  ~IntTupleLess(Ints(findall_digits(TrackTags[j])), Ints(findall_digits(TrackTags[i])))
            /\ ~Natural(TrackTags[i]) /\ ~Natural(TrackTags[j]) => ~StrLess(TrackTags[j], TrackTags[i])
            /\ ~(~Natural(TrackTags[i]) /\ Natural(TrackTags[j]))

\* C8: whatever the sources, the Track Details are written without an
\* exception, the sections of two digit runs or more by their integers, the
\* others by their text, and the former before the latter.
C8_TracksSortedNeverRaises ==
    /\ pc # "raised"
    /\ pc \in {"audit", "done"} => TracksInOrder

BuilderStates == {"rows", "audit", "done", "raised"}

\* C9: a run that parses no question ends with exit status 1 before
\* create_xlsx_output is called, with no sheet built and no file written;
\* the sheets are built only after every row is read and some question found.
C9_NoQuestionsNoOutput ==
    /\ (pc # "parse" /\ questions = <<>>) =>
          /\ pc = "exit"
          /\ exit_code = 1
          /\ rows = <<>> /\ debug_rows = <<>> /\ written = <<>>
    /\ (pc \in BuilderStates \/ rows # <<>> \/ debug_rows # <<>> \/ written # <<>>) =>
          /\ row > Len(records)
          /\ questions # <<>>

\* three rows, none with a question: exit status 1 and nothing built
C9_Witness ==
    /\ pc = "exit"
    /\ exit_code = 1
    /\ Len(records) = 3
    /\ questions = <<>>
    /\ written = <<>>

\* the audit rows written so far: the last rows of the Debug sheet
Audited == IF pc = "audit" THEN qi - 1 ELSE IF pc = "done" THEN Len(questions) ELSE 0

Preview(k) == debug_rows[Len(debug_rows) - Audited + k][3]

\* C10: the preview is the question's text when that has at most 50
\* characters, else its first 47 characters and '...'; it never exceeds 50
\* characters; a text of 50 is kept whole and one of 60 becomes 50.
C10_Preview ==
    \A k \in 1..Audited :
        LET text == questions[k].question
        IN  /\ Len(text) <= 50 => Preview(k) = text
            /\ Len(text) > 50 => Preview(k) = SubSeq(text, 1, 47) \o "..."
            /\ Len(Preview(k)) <= 50
            /\ Len(text) = 60 => Len(Preview(k)) = 50

\* a text of 60 characters is written as its first 47 and '...'
C10_Witness ==
    /\ pc = "done"
    /\ Len(questions[1].question) = 60
    /\ Len(written.Debug[Len(written.Debug)][3]) = 50
    /\ SubSeq(written.Debug[Len(written.Debug)][3], 48, 50) = "..."

\* the data rows of the k-th question: row j of the sheet's block for it
DataRow(k, j) == rows[1 + RowsOfFirst(k - 1) + j]

C11_Layout(k) ==
    LET q == questions[k]
    IN  \A j \in 1..Len(q.choices) :
           LET r == DataRow(k, j)
           IN  /\ Len(r) = 7
               /\ r[4] = q.choices[j]
               /\ r[5] = (IF (j - 1) \in Elems(q.correct_indices) THEN "1" ELSE "")
               /\ r[5] = "1" <=> \E n \in 1..Len(q.correct_indices) : q.correct_indices[n] = j - 1
               /\ IF j = 1
                  THEN /\ r[1] = q.type
                       /\ r[2] = q.question
                       /\ r[3] = q.explanation
                       /\ r[6] = "ID"
                       /\ r[7] = (IF q.source = "" THEN section_id ELSE q.source)
                  ELSE r[1] = "" /\ r[2] = "" /\ r[3] = "" /\ r[6] = "" /\ r[7] = ""

\* C11: a question of one choice or more has a data row per choice, in the
\* order of the choices; row i holds choices[i] as Answer and '1' as Correct
\* exactly when i is a correct index; the first row alone holds the type,
\* the text, the explanation, 'ID' and the source, or the default section
\* id when the source is empty.
C11_RowPerChoice ==
    rows # <<>> =>
      /\ Len(rows) - 1 = RowsOfFirst(Laid)
      /\ \A k \in 1..Laid : C11_Layout(k)
      /\ written # <<>> => written.Questions = rows

\* a written question without a source and of four choices, the first and
\* the third correct, after a question of another source
C11_Witness ==
    /\ written # <<>>
    /\ Len(questions) = 2
    /\ questions[1].source = "7.1"
    /\ questions[2].source = ""
    /\ Len(questions[2].choices) = 4
    /\ questions[2].correct_indices = <<0, 2>>
    /\ LET first == 1 + RowsOfFirst(1)
       IN  /\ written.Questions[first + 1][7] = "7.1"
           /\ written.Questions[first + 1][5] = "1"
           /\ written.Questions[first + 2][5] = ""
           /\ written.Questions[first + 3] = <<"", "", "", "Rome", "1", "", "">>

C12_PointsAtAnswer(q, r) ==
    LET a == AnswerOf(r)
    IN  (q.type = "TF" /\ lower(a) \in {"true", "false"}) =>
          /\ Len(q.correct_indices) = 1
          /\ q.correct_indices[1] \in 0..(Len(q.choices) - 1)
          /\ lower(q.choices[q.correct_indices[1] + 1]) = lower(a)

\* C12: for a question typed TF whose correct answer is 'true' or 'false' in
\* any letter case, the one correct index is that of the choice whose text
\* is the answer but for case, whichever of the two choices comes first.
C12_TrueFalseIndexFollowsChoice == EveryQuestion(C12_PointsAtAnswer)

====
